---- MODULE Spec2Model ----
(***************************************************************************)
(* Translator Pro (src/main.py): the chunked translation runner            *)
(* TranslationWorker.run and the part of TranslatorApp that creates,       *)
(* replaces and listens to workers.                                        *)
(*                                                                         *)
(* Two specifications:                                                     *)
(*   SpecWorker  one TranslationWorker, constructed with any arguments,    *)
(*               started, and stopped by its owner at any moment;          *)
(*   Spec        a TranslatorApp window: the user edits the source text,   *)
(*               saves settings and calls translate_text; the workers it   *)
(*               starts run concurrently with the main thread and their    *)
(*               signals are queued to it.                                 *)
(*                                                                         *)
(* Strings are sequences of one-character strings.  A source text is held  *)
(* in the state by a handle (its length); TextOf gives its characters.     *)
(***************************************************************************)
EXTENDS Integers, Sequences, FiniteSets, TLC

VARIABLES
    workers,             \* every TranslationWorker created so far, by index
    queue,               \* signals queued to the main thread, oldest first
    worker,              \* TranslatorApp.worker: 0 for None, else an index
    ui_pc,               \* "idle", or "wait" inside worker.wait(1000)
    translation_backend, \* TranslatorApp.translation_backend
    deepl_api_key,       \* TranslatorApp.deepl_api_key
    source_text,         \* contents of the source text box (a handle)
    target_lang_name,    \* current text of the target language combo box
    target_text,         \* contents of the translation area
    progress_bar,        \* [visible, value]
    translate_button,    \* [enabled, text]
    status_label,        \* text of the status label
    provider             \* the answers the translation services can give

vars == <<workers, queue, worker, ui_pc, translation_backend, deepl_api_key,
          source_text, target_lang_name, target_text, progress_bar, translate_button,
          status_label, provider>>

appvars == <<worker, ui_pc, translation_backend, deepl_api_key, source_text,
             target_lang_name, target_text, progress_bar, translate_button, status_label,
             provider>>

(***************************************************************************)
(* Bounds of the model.                                                    *)
(***************************************************************************)
MaxChunks == 2      \* longest text of SpecWorker, in chunks
MaxWorkers == 2     \* translate_text creates at most this many workers
MaxQueue == 3       \* signals queued to the main thread and not yet delivered

(***************************************************************************)
(* Program constants.                                                      *)
(***************************************************************************)
CHUNK_SIZE == 4500
max_retries == 3
initial_retry_delay == 2

(***************************************************************************)
(* Strings.                                                                *)
(***************************************************************************)
Min(a, b) == IF a < b THEN a ELSE b

Alphabet == <<"h", "e", " ", "l", "o", "w", "r">>

\* The characters of the text with handle t.
TextOf(t) == [j \in 1..t.len |-> Alphabet[(j % 7) + 1]]

Text(n) == [len |-> n]

IsSpace(c) == c = " "

RECURSIVE lstrip(_)
lstrip(s) == IF s # <<>> /\ IsSpace(Head(s)) THEN lstrip(Tail(s)) ELSE s

RECURSIVE rstrip(_)
rstrip(s) ==
    IF s # <<>> /\ IsSpace(s[Len(s)]) THEN rstrip(SubSeq(s, 1, Len(s) - 1))
    ELSE s

strip_right(s) == rstrip(s)

strip_left(s) == lstrip(s)

\* str.strip(): leading and trailing whitespace removed.
strip(s) == rstrip(lstrip(s))

\* range(start, stop, step) for a positive step.
RECURSIVE range(_, _, _)
range(start, stop, step) ==
    IF start >= stop THEN <<>>
    ELSE <<start>> \o range(start + step, stop, step)

SliceShort(s, a, b) == SubSeq(s, a + 1, Min(b, Len(s)) - 1)

\* s[a:b] for 0 <= a <= b: the end is clamped to the length of s.
Slice(s, a, b) == SubSeq(s, a + 1, Min(b, Len(s)))

\* chunks = [text[i:i+4500] for i in range(0, len(text), 4500)]
Chunks(s) ==
    LET starts == range(0, Len(s), CHUNK_SIZE)
    IN  [k \in 1..Len(starts) |-> Slice(s, starts[k], starts[k] + CHUNK_SIZE)]

ProgressRemaining(completed, total) == ((total - completed) * 100) \div total

(***************************************************************************)
(* IEEE-754 double arithmetic, as far as line 102 needs it.  The 53-bit    *)
(* significand of a double is held in three limbs, a * LIMB^2 + b * LIMB   *)
(* + c, and results are rounded to nearest, ties to even.  The limbs keep  *)
(* every intermediate value below 2^31 for divisors below 2^13.            *)
(***************************************************************************)
LIMB == 2 ^ 18

\* The number of zero bits of k / n after the binary point, 0 < k < n.
RECURSIVE LeadingZeros(_, _)
LeadingZeros(k, n) == IF 2 * k >= n THEN 0 ELSE 1 + LeadingZeros(2 * k, n)

\* The double k / n for 0 < k < n: (a * LIMB^2 + b * LIMB + c) / 2^(z + 53),
\* the first 53 significant bits of the quotient, rounded.
FloatDiv(k, n) ==
    LET z == LeadingZeros(k, n)
        r0 == k * (2 ^ z)
        a == (r0 * (2 ^ 17)) \div n
        r1 == (r0 * (2 ^ 17)) % n
        b == (r1 * LIMB) \div n
        r2 == (r1 * LIMB) % n
        c == (r2 * LIMB) \div n
        r3 == (r2 * LIMB) % n
        up == 2 * r3 > n \/ (2 * r3 = n /\ c % 2 = 1)
        c1 == IF up THEN c + 1 ELSE c
        b1 == b + (c1 \div LIMB)
        a1 == a + (b1 \div LIMB)
    IN  [a |-> a1, b |-> b1 % LIMB, c |-> c1 % LIMB, z |-> z]

\* The double x * 100: the exact product has 59 or 60 bits, of which the
\* lowest 6 or 7 are rounded away.
FloatTimes100(x) ==
    LET c100 == x.c * 100
        b100 == x.b * 100 + (c100 \div LIMB)
        t == x.a * 100 + (b100 \div LIMB)
        bl == b100 % LIMB
        cl == c100 % LIMB
        d == IF t >= 2 ^ 23 THEN 7 ELSE 6
        tail == cl % (2 ^ d)
        kept == cl \div (2 ^ d)
        up == tail > 2 ^ (d - 1) \/ (tail = 2 ^ (d - 1) /\ kept % 2 = 1)
        c2 == (IF up THEN kept + 1 ELSE kept) * (2 ^ d)
        b2 == bl + (c2 \div LIMB)
        t2 == t + (b2 \div LIMB)
    IN  [a |-> t2, b |-> b2 % LIMB, c |-> c2 % LIMB, z |-> x.z]

\* int(x) for a double x >= 0: the fraction is cut off.
FloatToInt(x) == x.a \div (2 ^ (x.z + 17))

\* int((i + 1) / total_chunks * 100) with completed = i + 1 <= total:
\* a double division, a double multiplication and a truncation.
Progress(completed, total) ==
    IF completed = total THEN 100
    ELSE CHOOSE p \in {FloatToInt(y) : y \in {FloatTimes100(x) :
                            x \in {FloatDiv(k, n) : k \in {completed},
                                                    n \in {total}}}} : TRUE

AccumulateInFront(buf, translated_chunk) == translated_chunk \o <<" ">> \o buf

\* translated_text += translated_chunk + " "
Accumulate(buf, translated_chunk) == buf \o translated_chunk \o <<" ">>

(***************************************************************************)
(* The translation backends.  What a provider answers is outside the       *)
(* program: a call returns one of Results or raises one of BackendErrors;   *)
(* provider holds the answers possible in the behaviour at hand.            *)
(***************************************************************************)
Backends == {"googletrans", "deep-translator", "deepl"}

Results == {<<"h", "i">>, <<" ", "a", " ", "b", " ">>}

BackendErrors == {"timeout", "HTTP 429"}

NoKeyError == "DeepL API key is required. Please configure it in Settings."

UnknownBackendError(b) == <<"Unknown translation backend:", b>>

\* An answer of a call of a provider: net tells that the provider was called.
Ok(r) == [ok |-> TRUE, val |-> r, net |-> TRUE]

Raise(e) == [ok |-> FALSE, val |-> e, net |-> TRUE]

\* An exception raised before any provider is called.
Refuse(e) == [ok |-> FALSE, val |-> e, net |-> FALSE]

\* A call that reaches the provider returns or raises one of its answers.
ProviderOutcomes == provider

\* The entries of the target language combo box the user chooses among.
LangNames == {"Spanish", "French"}

lang_map == [n \in LangNames |-> IF n = "Spanish" THEN "es" ELSE "fr"]

\* lang_map.get(target_lang_name, 'en')
target_lang_code ==
    IF target_lang_name \in DOMAIN lang_map THEN lang_map[target_lang_name]
    ELSE "en"

\* The arguments translate_text would construct a worker with now.
RequestNow ==
    [text |-> source_text, target_lang |-> target_lang_code,
     backend |-> translation_backend, key |-> deepl_api_key]

CallArgsLive(wr) == RequestNow

\* What a call of _translate_chunk reads of the worker: self.text (through
\* chunks), self.target_lang, self.translation_backend, self.deepl_api_key.
CallArgs(wr) ==
    [text |-> wr.text, target_lang |-> wr.target_lang,
     backend |-> wr.translation_backend, key |-> wr.deepl_api_key]

translate_with_deepl_unchecked(wr) == ProviderOutcomes

\* _translate_with_deepl: the key is tested before the provider is called.
translate_with_deepl(wr) ==
    IF CallArgs(wr).key = "" THEN {Refuse(NoKeyError)} ELSE ProviderOutcomes

\* _translate_chunk: the outcomes of one call, by backend.
translate_chunk(wr) ==
    LET backend == CallArgs(wr).backend
    IN  IF backend = "googletrans" THEN ProviderOutcomes
        ELSE IF backend = "deep-translator" THEN ProviderOutcomes
        ELSE IF backend = "deepl" THEN translate_with_deepl(wr)
        ELSE {Refuse(UnknownBackendError(backend))}

(***************************************************************************)
(* TranslationWorker.  A worker is a record; log is its history: the       *)
(* signals it emitted, its backend calls, its sleeps and the stop() calls  *)
(* made on it, in order, each a pair <<kind, payload>>.                    *)
(***************************************************************************)
SignalKinds == {"progress", "translation_done", "translation_error",
                "status_update"}

\* __init__ followed by start(); no slot is connected yet.  The history
\* starts with the arguments of the constructor.
NewWorker(text, target_lang, backend, key) ==
    [text |-> text, target_lang |-> target_lang,
     translation_backend |-> backend, deepl_api_key |-> key,
     is_running |-> TRUE, connected |-> FALSE,
     pc |-> "start", total_chunks |-> 0, i |-> 0, attempt |-> 0,
     retry_delay |-> 0, translated_text |-> <<>>,
     log |-> << <<"init", [text |-> text, target_lang |-> target_lang,
                           backend |-> backend, key |-> key]>> >>]

Record(wr, kind, payload) == [wr EXCEPT !.log = Append(@, <<kind, payload>>)]

\* QThread.isRunning(): run() has not returned.  pc is "start", "loop" or
\* "attempt" inside run(), "returning" from its last statement until the
\* thread has left it, "finished" after that.
isRunning(wr) == wr.pc # "finished"

stop_other_flag(wr) == Record(wr, "stop", [pc |-> wr.pc, i |-> wr.i])

\* stop(): only clears the flag.
stop(wr) ==
    Record([wr EXCEPT !.is_running = FALSE], "stop", [pc |-> wr.pc, i |-> wr.i])

CancelledNever(wr) == FALSE

\* if not self._is_running: return
Cancelled(wr) == ~wr.is_running

LastAttemptOffByOne(attempt) == attempt = max_retries

\* if attempt == max_retries - 1: raise
LastAttempt(attempt) == attempt = max_retries - 1

ExceptHandlerSilent(wr, e) == [wr EXCEPT !.pc = "returning"]

ExceptHandlerThenStatus(wr, e) ==
    Record(Record([wr EXCEPT !.pc = "returning"], "translation_error", e),
           "status_update", <<"Translation failed">>)

\* except Exception as e: self.translation_error.emit(str(e)); run returns
ExceptHandler(wr, e) ==
    Record([wr EXCEPT !.pc = "returning"], "translation_error", e)

\* f"Translation failed after {max_retries} attempts. Error: {str(retry_error)}"
FailedAfter(e) ==
    <<"Translation failed after", max_retries, "attempts. Error:", e>>

\* Lines 65-69: split the text, announce the number of chunks.
run_start(wr) ==
    LET n == CHOOSE m \in {Len(Chunks(s)) : s \in {TextOf(wr.text)}} : TRUE
    IN  Record([wr EXCEPT !.total_chunks = n, !.translated_text = <<>>,
                          !.i = 0, !.pc = "loop"],
               "status_update", <<"Translating", n, "chunk(s)...">>)

\* Lines 102-103 and the step of the for loop over the chunks.
chunk_done(wr) ==
    Record([wr EXCEPT !.i = @ + 1, !.pc = "loop"],
           "progress", Progress(wr.i + 1, wr.total_chunks))

loop_head_delay_kept(wr) ==
    IF wr.i >= wr.total_chunks
    THEN Record([wr EXCEPT !.pc = "returning"],
                "translation_done", strip(wr.translated_text))
    ELSE IF Cancelled(wr)
    THEN Record([wr EXCEPT !.pc = "returning"], "return", "cancelled")
    ELSE Record([wr EXCEPT !.attempt = 0,
                           !.retry_delay = IF wr.i = 0 THEN initial_retry_delay
                                           ELSE @,
                           !.pc = "attempt"],
                "status_update",
                <<"Processing chunk", wr.i + 1, wr.total_chunks>>)

\* Lines 71-81 and 105-106: the head of the loop over the chunks.
loop_head(wr) ==
    IF wr.i >= wr.total_chunks
    THEN Record([wr EXCEPT !.pc = "returning"],
                "translation_done", strip(wr.translated_text))
    ELSE IF Cancelled(wr)
    THEN Record([wr EXCEPT !.pc = "returning"], "return", "cancelled")
    ELSE Record([wr EXCEPT !.attempt = 0, !.retry_delay = initial_retry_delay,
                           !.pc = "attempt"],
                "status_update",
                <<"Processing chunk", wr.i + 1, wr.total_chunks>>)

\* Lines 85-89: before a retry, announce it and sleep.
backoff(wr) ==
    IF wr.attempt > 0
    THEN Record(Record([wr EXCEPT !.retry_delay = @ * 2],
                       "status_update",
                       <<"Retry", wr.attempt, max_retries - 1, wr.i + 1>>),
                "sleep", wr.retry_delay)
    ELSE wr

attempt_failed_dirty(wr, e) ==
    LET d == [wr EXCEPT !.translated_text = Accumulate(@, <<>>)]
    IN  IF LastAttempt(d.attempt) THEN ExceptHandler(d, FailedAfter(e))
        ELSE IF d.attempt + 1 < max_retries THEN [d EXCEPT !.attempt = @ + 1]
        ELSE chunk_done(d)

\* Lines 96-100: a failed attempt.
attempt_failed(wr, e) ==
    IF LastAttempt(wr.attempt) THEN ExceptHandler(wr, FailedAfter(e))
    ELSE IF wr.attempt + 1 < max_retries THEN [wr EXCEPT !.attempt = @ + 1]
    ELSE chunk_done(wr)     \* range(max_retries) exhausted without a raise

attempt_flag_checked(wr, o) ==
    IF Cancelled(wr)
    THEN Record([wr EXCEPT !.pc = "returning"], "return", "cancelled")
    ELSE LET w1 == backoff(wr)
             w2 == Record(w1, "call",
                          [chunk |-> wr.i + 1, attempt |-> wr.attempt,
                           ok |-> o.ok, val |-> o.val, net |-> o.net,
                           args |-> CallArgs(wr)])
         IN  IF o.ok
             THEN chunk_done([w2 EXCEPT
                                 !.translated_text = Accumulate(@, o.val)])
             ELSE attempt_failed(w2, o.val)

attempt_without_break(wr, o) ==
    LET w1 == backoff(wr)
        w2 == Record(w1, "call", [chunk |-> wr.i + 1, attempt |-> wr.attempt,
                                  ok |-> o.ok, val |-> o.val, net |-> o.net,
                                  args |-> CallArgs(wr)])
    IN  IF o.ok
        THEN LET w3 == [w2 EXCEPT !.translated_text = Accumulate(@, o.val)]
             IN  IF w3.attempt + 1 < max_retries
                 THEN [w3 EXCEPT !.attempt = @ + 1]
                 ELSE chunk_done(w3)
        ELSE attempt_failed(w2, o.val)

\* Lines 83-103: one pass of the retry loop, the backend answering o.
attempt(wr, o) ==
    LET w1 == backoff(wr)
        w2 == Record(w1, "call", [chunk |-> wr.i + 1, attempt |-> wr.attempt,
                                  ok |-> o.ok, val |-> o.val, net |-> o.net,
                                  args |-> CallArgs(wr)])
    IN  IF o.ok
        THEN chunk_done([w2 EXCEPT !.translated_text = Accumulate(@, o.val)])
        ELSE attempt_failed(w2, o.val)

\* The signals a step of worker w emitted, as queued to the main thread.
Emitted(w, old, new) ==
    LET added == SubSeq(new.log, Len(old.log) + 1, Len(new.log))
        sigs == SelectSeq(added, LAMBDA ev : ev[1] \in SignalKinds)
    IN  [k \in 1..Len(sigs) |-> [w |-> w, sig |-> sigs[k][1], arg |-> sigs[k][2]]]

\* A step of run(): a signal with a slot connected to it is queued to the
\* main thread, which owns the slots; a signal nothing is connected to is
\* dropped.
Step(w, new) ==
    \E after \in {new} :
        /\ workers' = [workers EXCEPT ![w] = after]
        /\ IF workers[w].connected
           THEN /\ queue' = queue \o Emitted(w, workers[w], after)
                /\ Len(queue') <= MaxQueue
           ELSE queue' = queue

RunStart(w) ==
    /\ workers[w].pc = "start"
    /\ Step(w, run_start(workers[w]))
    /\ UNCHANGED appvars

LoopHead(w) ==
    /\ workers[w].pc = "loop"
    /\ Step(w, loop_head(workers[w]))
    /\ UNCHANGED appvars

Attempt(w) ==
    /\ workers[w].pc = "attempt"
    /\ \E o \in translate_chunk(workers[w]) : Step(w, attempt(workers[w], o))
    /\ UNCHANGED appvars

\* run() returns and the thread finishes.
RunReturns(w) ==
    /\ workers[w].pc = "returning"
    /\ workers' = [workers EXCEPT ![w].pc = "finished"]
    /\ UNCHANGED <<queue, appvars>>

\* The owner of the worker calls stop() while the thread runs, once, as
\* translate_text does.
Stop(w) ==
    /\ isRunning(workers[w])
    /\ \A p \in 1..Len(workers[w].log) : workers[w].log[p][1] # "stop"
    /\ workers' = [workers EXCEPT ![w] = stop(@)]
    /\ UNCHANGED <<queue, appvars>>

WorkerStep ==
    \E w \in 1..Len(workers) :
        RunStart(w) \/ LoopHead(w) \/ Attempt(w) \/ RunReturns(w)

(***************************************************************************)
(* TranslatorApp.                                                          *)
(***************************************************************************)
AppInit ==
    /\ worker = 0
    /\ ui_pc = "idle"
    /\ translation_backend = "googletrans"
    /\ deepl_api_key = ""
    /\ source_text = Text(0)
    /\ target_lang_name = "Spanish"
    /\ target_text = <<"">>
    /\ progress_bar = [visible |-> FALSE, value |-> 0]
    /\ translate_button = [enabled |-> TRUE, text |-> "Translate"]
    /\ status_label = <<"Ready">>

\* The source box holding the literal "Enter or paste your text here...".
PlaceholderText == [len |-> 32, literal |-> "Enter or paste your text here..."]

\* The texts the user types, pastes or loads into the source box.
SourceTexts == {Text(0), PlaceholderText, Text(CHUNK_SIZE + 1)}

RejectedIfPlaceholder(t) == t = PlaceholderText

\* not source_text or source_text == "Enter or paste your text here..."
Rejected(t) == t.len = 0 \/ t = PlaceholderText

\* What the settings dialog is saved with: <<backend, api_key>>.
Settings == {<<"googletrans", "">>, <<"deepl", "k3y">>}

\* The user chooses another entry of the target language combo box.
SetTargetLang ==
    /\ ui_pc = "idle"
    /\ \E n \in LangNames : n # target_lang_name /\ target_lang_name' = n
    /\ UNCHANGED <<workers, queue, worker, ui_pc, translation_backend,
                   deepl_api_key, source_text, target_text, progress_bar,
                   translate_button, status_label, provider>>

\* The user edits the source text box.
SetSourceText ==
    /\ ui_pc = "idle"
    /\ \E t \in SourceTexts : t # source_text /\ source_text' = t
    /\ UNCHANGED <<workers, queue, worker, ui_pc, translation_backend,
                   deepl_api_key, target_lang_name, target_text, progress_bar,
                   translate_button, status_label, provider>>

\* open_settings, the dialog accepted with (backend, api_key).
open_settings ==
    /\ ui_pc = "idle"
    /\ \E st \in Settings :
          /\ st # <<translation_backend, deepl_api_key>>
          /\ translation_backend' = st[1]
          /\ deepl_api_key' = st[2]
          /\ status_label' = <<"Backend set to:", st[1]>>
    /\ UNCHANGED <<workers, queue, worker, ui_pc, source_text,
                   target_lang_name, target_text, progress_bar,
                   translate_button, provider>>

StartWorkerButtonLeft(ws) ==
    /\ progress_bar' = [visible |-> TRUE, value |-> 0]
    /\ status_label' = <<"Translating to", target_lang_name>>
    /\ workers' = Append(ws, [NewWorker(RequestNow.text,
                                        RequestNow.target_lang,
                                        RequestNow.backend, RequestNow.key)
                                  EXCEPT !.connected = TRUE])
    /\ worker' = Len(ws) + 1
    /\ ui_pc' = "idle"
    /\ UNCHANGED <<queue, translation_backend, deepl_api_key, source_text,
                   target_lang_name, target_text, provider, translate_button>>

\* translate_text, lines 1136-1155: show the run and start a new worker.
\* ws is the list of workers after the clean-up of the previous one.
StartWorker(ws) ==
    /\ progress_bar' = [visible |-> TRUE, value |-> 0]
    /\ translate_button' = [enabled |-> FALSE, text |-> "Translating..."]
    /\ status_label' = <<"Translating to", target_lang_name>>
    /\ workers' = Append(ws, [NewWorker(RequestNow.text,
                                        RequestNow.target_lang,
                                        RequestNow.backend, RequestNow.key)
                                  EXCEPT !.connected = TRUE])
    /\ worker' = Len(ws) + 1
    /\ ui_pc' = "idle"
    /\ UNCHANGED <<queue, translation_backend, deepl_api_key, source_text,
                   target_lang_name, target_text, provider>>

clicked_when_disabled == TRUE

\* translate_button.clicked, the only caller of translate_text (line 894):
\* a disabled button emits no clicked.
clicked == translate_button.enabled

\* translate_text, lines 1113-1134, up to worker.wait(1000) when the previous
\* worker is still running, else to the end.  quit() ends an event loop,
\* which run() never enters: it changes nothing.  The main thread is blocked
\* inside wait(1000), the worker threads are not.
translate_text ==
    /\ ui_pc = "idle"
    /\ clicked
    /\ IF Rejected(source_text)
       THEN /\ status_label' = <<"Please enter text to translate">>
            /\ UNCHANGED <<workers, queue, worker, ui_pc, translation_backend,
                           deepl_api_key, source_text, target_lang_name,
                           target_text, progress_bar, translate_button,
                           provider>>
       ELSE /\ Len(workers) < MaxWorkers
            /\ IF worker # 0
               THEN LET ws == [workers EXCEPT ![worker] = stop(@)]
                    IN  IF isRunning(workers[worker])
                        THEN /\ workers' = ws
                             /\ ui_pc' = "wait"
                             /\ UNCHANGED <<queue, worker, translation_backend,
                                            deepl_api_key, source_text,
                                            target_lang_name, target_text, progress_bar,
                                            translate_button, status_label,
                                            provider>>
                        ELSE StartWorker(ws)
               ELSE StartWorker(workers)

\* worker.wait(1000) returns: the thread has finished or the second is over.
\* Then self.worker = None and the rest of translate_text.
wait_returns ==
    /\ ui_pc = "wait"
    /\ StartWorker(workers)

\* The main thread's event loop delivers the oldest queued signal to the slot
\* translate_text connected to it.
update_progress(value) ==
    /\ progress_bar' = [progress_bar EXCEPT !.value = value]
    /\ UNCHANGED <<target_text, translate_button, status_label>>

translation_finished_button_left(translated_text) ==
    /\ target_text' = translated_text
    /\ progress_bar' = [progress_bar EXCEPT !.visible = FALSE]
    /\ status_label' = <<"Translation complete!">>
    /\ UNCHANGED translate_button

translation_finished(translated_text) ==
    /\ target_text' = translated_text
    /\ progress_bar' = [progress_bar EXCEPT !.visible = FALSE]
    /\ translate_button' = [enabled |-> TRUE, text |-> "Translate"]
    /\ status_label' = <<"Translation complete!">>

translation_error_button_left(error_message) ==
    /\ target_text' = <<"Translation Error:", error_message, "Please try again.">>
    /\ progress_bar' = [progress_bar EXCEPT !.visible = FALSE]
    /\ status_label' = <<"Translation failed - Please try again">>
    /\ UNCHANGED translate_button

translation_error(error_message) ==
    /\ target_text' = <<"Translation Error:", error_message, "Please try again.">>
    /\ progress_bar' = [progress_bar EXCEPT !.visible = FALSE]
    /\ translate_button' = [enabled |-> TRUE, text |-> "Translate"]
    /\ status_label' = <<"Translation failed - Please try again">>

set_status(msg) ==
    /\ status_label' = msg
    /\ UNCHANGED <<target_text, progress_bar, translate_button, provider>>

Deliver ==
    /\ ui_pc = "idle"
    /\ queue # <<>>
    /\ queue' = Tail(queue)
    /\ LET m == Head(queue)
       IN  IF m.sig = "progress" THEN update_progress(m.arg)
           ELSE IF m.sig = "translation_done" THEN translation_finished(m.arg)
           ELSE IF m.sig = "translation_error" THEN translation_error(m.arg)
           ELSE set_status(m.arg)
    /\ UNCHANGED <<workers, worker, ui_pc, translation_backend, deepl_api_key,
                   source_text, target_lang_name, provider>>

\* The window after construction.  The translation service of a session
\* either answers every call or fails every call; SpecWorker covers the
\* services that do both.
Init ==
    /\ workers = <<>>
    /\ queue = <<>>
    /\ provider \in {{Ok(<<" ", "a", " ", "b", " ">>)}, {Raise("timeout")}}
    /\ AppInit

Next ==
    \/ SetSourceText
    \/ SetTargetLang
    \/ open_settings
    \/ translate_text
    \/ wait_returns
    \/ Deliver
    \/ WorkerStep

Spec == Init /\ [][Next]_vars

\* The thread of worker w takes a step of run().
WorkerRuns(w) ==
    /\ w \in 1..Len(workers)
    /\ (RunStart(w) \/ LoopHead(w) \/ Attempt(w) \/ RunReturns(w))

\* Every started thread is scheduled and every backend call returns or
\* raises; the event loop of the main thread handles every queued signal;
\* worker.wait(1000) returns.  Nothing is assumed of the user.
Fairness ==
    /\ \A w \in 1..MaxWorkers : WF_vars(WorkerRuns(w))
    /\ WF_vars(Deliver)
    /\ WF_vars(wait_returns)

SpecFair == Spec /\ Fairness

(***************************************************************************)
(* SpecWorker: one worker with any constructor arguments.                  *)
(***************************************************************************)
WorkerTexts ==
    {Text(0), Text(1), Text(CHUNK_SIZE - 1), Text(CHUNK_SIZE),
     Text(CHUNK_SIZE + 1), Text(MaxChunks * CHUNK_SIZE)}

WorkerArgs ==
    {<<"googletrans", "">>, <<"deep-translator", "">>, <<"deepl", "">>,
     <<"deepl", "k3y">>, <<"bing", "">>}

InitWorker ==
    /\ \E t \in WorkerTexts, a \in WorkerArgs :
          workers = <<NewWorker(t, "es", a[1], a[2])>>
    /\ queue = <<>>
    /\ provider = {Ok(r) : r \in Results} \cup {Raise(e) : e \in BackendErrors}
    /\ AppInit

NextWorker ==
    RunStart(1) \/ LoopHead(1) \/ Attempt(1) \/ RunReturns(1) \/ Stop(1)

SpecWorker == InitWorker /\ [][NextWorker]_vars

\* The thread of the worker is scheduled until run() has returned, and every
\* backend call returns or raises.  Nothing is assumed of stop().
SpecWorkerFair == SpecWorker /\ WF_vars(WorkerRuns(1))

(***************************************************************************)
(* SpecProgress: one worker over a long text, every call answered.         *)
(***************************************************************************)
MaxProgressChunks == 50

InitProgress ==
    /\ \E n \in 1..MaxProgressChunks :
          workers = <<NewWorker(Text(n * CHUNK_SIZE), "es", "googletrans", "")>>
    /\ queue = <<>>
    /\ provider = {Ok(<<"h", "i">>)}
    /\ AppInit

NextProgress == RunStart(1) \/ LoopHead(1) \/ Attempt(1) \/ RunReturns(1)

SpecProgress == InitProgress /\ [][NextProgress]_vars

(***************************************************************************)
(* Reading a worker's history.                                             *)
(***************************************************************************)
W == 1..Len(workers)

Payloads(lg, kind) ==
    LET sel == SelectSeq(lg, LAMBDA ev : ev[1] = kind)
    IN  [k \in 1..Len(sel) |-> sel[k][2]]

\* The backend calls of a history, oldest first:
\* [chunk, attempt, ok, val, net, args].
Calls(lg) == Payloads(lg, "call")

OkCalls(lg) == SelectSeq(Calls(lg), LAMBDA c : c.ok)

FailedCallsOn(lg, k) == SelectSeq(Calls(lg), LAMBDA c : ~c.ok /\ c.chunk = k)

CallsOn(lg, k) == SelectSeq(Calls(lg), LAMBDA c : c.chunk = k)

IsTerminal(ev) == ev[1] \in {"translation_done", "translation_error"}

Terminals(lg) == SelectSeq(lg, IsTerminal)

Has(lg, kind) == \E p \in 1..Len(lg) : lg[p][1] = kind

\* run() returned at "if not self._is_running: return".
ReturnedCancelled(wr) == Has(wr.log, "return")

\* run() has executed its last statement.
RunOver(wr) == wr.pc \in {"returning", "finished"}

\* Ceiling of a / b, as in arithmetic.
Ceil(a, b) == CHOOSE q \in 0..(a \div b + 1) : q * b >= a /\ (q - 1) * b < a

RECURSIVE Concat(_)
Concat(ss) == IF ss = <<>> THEN <<>> ELSE Head(ss) \o Concat(Tail(ss))

\* Each translation followed by one space, in the order given.
RECURSIVE JoinSpaced(_)
JoinSpaced(rs) ==
    IF rs = <<>> THEN <<>> ELSE Head(rs) \o <<" ">> \o JoinSpaced(Tail(rs))

\* The history of the run of the same request in which the k-th chunk is
\* answered rs[k] on its first attempt and nothing is stopped.
RECURSIVE Replay(_, _)
Replay(wr, rs) ==
    IF rs = <<>> THEN loop_head(wr)
    ELSE Replay(attempt(loop_head(wr), Ok(Head(rs))), Tail(rs))

FirstAttemptRun(wr, rs) ==
    Replay([NewWorker(wr.text, wr.target_lang, wr.translation_backend,
                      wr.deepl_api_key)
               EXCEPT !.pc = "loop", !.total_chunks = wr.total_chunks], rs)

(***************************************************************************)
(* The claims.                                                             *)
(***************************************************************************)

\* C1: every chunk receives at most 3 translation attempts; if all 3 attempts
\* on a chunk k fail, translation_error has been emitted, no attempt is made
\* on a chunk after k and no progress value is emitted for chunk k.
C1_ThreeAttemptsThenAbort ==
    \A w \in W :
        LET lg == workers[w].log
        IN  \A k \in {c.chunk : c \in {Calls(lg)[j] : j \in 1..Len(Calls(lg))}} :
                /\ Len(CallsOn(lg, k)) <= 3
                /\ Len(FailedCallsOn(lg, k)) = 3 =>
                      /\ Has(lg, "translation_error")
                      /\ \A j \in 1..Len(Calls(lg)) : Calls(lg)[j].chunk <= k
                      /\ Len(Payloads(lg, "progress")) = k - 1

C1_Witness ==
    \E w \in W :
        /\ workers[w].total_chunks >= 2
        /\ Len(FailedCallsOn(workers[w].log, 1)) = 3
        /\ workers[w].pc = "finished"

\* C2: with backend 'deepl' and an empty API key the missing-credential
\* failure is not retried: the run makes exactly one attempt, on the first
\* chunk, sleeps for no backoff, and then emits translation_error.
C2_NoKeyNotRetried ==
    \A w \in W :
        LET wr == workers[w]
        IN  (wr.translation_backend = "deepl" /\ wr.deepl_api_key = "") =>
                /\ ~Has(wr.log, "sleep")
                /\ Len(Calls(wr.log)) <= 1
                /\ (RunOver(wr) /\ wr.total_chunks > 0
                    /\ ~ReturnedCancelled(wr)) =>
                       /\ Len(CallsOn(wr.log, 1)) = 1
                       /\ Has(wr.log, "translation_error")

\* C3 (as claimed): whenever stop() is called before the worker has emitted a
\* terminal signal, the worker afterwards emits neither translation_done nor
\* translation_error.
C3_StopSilencesRun ==
    \A w \in W :
        LET lg == workers[w].log
        IN  \A p \in 1..Len(lg) :
                (lg[p][1] = "stop" /\ Terminals(SubSeq(lg, 1, p)) = <<>>) =>
                    Terminals(lg) = <<>>

\* C3 (amended): a stop() called while the worker is before the flag check
\* of a chunk still to be processed is followed by neither terminal signal;
\* a stop() called during a chunk that is not the last is never followed by
\* translation_done.
C3_StopBeforeCheckSilencesRun ==
    \A w \in W :
        LET wr == workers[w]
            lg == wr.log
        IN  \A p \in 1..Len(lg) :
                lg[p][1] = "stop" =>
                    LET at == lg[p][2]
                        after == SubSeq(lg, p + 1, Len(lg))
                    IN  /\ (at.pc \in {"start", "loop"} /\ wr.pc # "start"
                            /\ at.i < wr.total_chunks) =>
                               Terminals(after) = <<>>
                        /\ (at.pc = "attempt" /\ at.i + 1 < wr.total_chunks) =>
                               ~Has(after, "translation_done")

C3_Witness ==
    \E w \in W :
        LET wr == workers[w]
        IN  /\ wr.pc = "finished"
            /\ ReturnedCancelled(wr)
            /\ \E p \in 1..Len(wr.log) :
                  /\ wr.log[p][1] = "stop"
                  /\ wr.log[p][2].pc = "loop"
                  /\ wr.log[p][2].i = 1
            /\ Len(OkCalls(wr.log)) = 1

C5_ExactlyOneTerminal ==
    \A w \in W :
        LET wr == workers[w]
        IN  /\ Len(Terminals(wr.log)) <= 1
            /\ (RunOver(wr) /\ ~ReturnedCancelled(wr)) =>
                   Len(Terminals(wr.log)) = 1

C5_Witness ==
    \E w \in W :
        /\ workers[w].pc = "finished"
        /\ Has(workers[w].log, "translation_error")
        /\ Has(workers[w].log, "stop")
        /\ ~ReturnedCancelled(workers[w])

\* C6: a text of length L is split into exactly ceil(L / 4500) chunks, each of
\* at most 4500 characters, whose concatenation in order is the text.
C6_Chunking ==
    \A w \in W :
        LET wr == workers[w]
        IN  /\ wr.pc # "start" => wr.total_chunks = Ceil(wr.text.len, 4500)
            /\ (wr.pc = "loop" /\ wr.i = 0) =>
                   LET s == TextOf(wr.text)
                       chunks == Chunks(s)
                   IN  /\ Len(s) = wr.text.len
                       /\ Len(chunks) = wr.total_chunks
                       /\ \A k \in 1..Len(chunks) : Len(chunks[k]) <= 4500
                       /\ Concat(chunks) = s

C6_Witness ==
    \E w \in W :
        /\ workers[w].pc = "loop"
        /\ workers[w].i = 0
        /\ workers[w].text.len = 4501
        /\ workers[w].total_chunks = 2

\* C7: the text of translation_done is the translations of all the chunks,
\* each once and in chunk order, each followed by a single space, trimmed.
C7_DoneTextInChunkOrder ==
    \A w \in W :
        LET wr == workers[w]
            oks == OkCalls(wr.log)
        IN  Has(wr.log, "translation_done") =>
                /\ [k \in 1..Len(oks) |-> oks[k].chunk]
                       = [k \in 1..wr.total_chunks |-> k]
                /\ Payloads(wr.log, "translation_done")[1]
                       = strip(JoinSpaced([k \in 1..Len(oks) |-> oks[k].val]))

C7_Witness ==
    \E w \in W :
        LET oks == OkCalls(workers[w].log)
        IN  /\ Has(workers[w].log, "translation_done")
            /\ Len(oks) = 2
            /\ oks[1].val # oks[2].val
            /\ Len(Calls(workers[w].log)) > 2

\* C8: a run in which some chunk fails once or twice before it succeeds
\* emits translation_done with the text of the run of the same request in
\* which every chunk gets the same translation on its first attempt.
C8_RetryTransparent ==
    \A w \in W :
        LET wr == workers[w]
            oks == OkCalls(wr.log)
        IN  (Has(wr.log, "translation_done") /\ Len(Calls(wr.log)) > Len(oks)) =>
                LET first == FirstAttemptRun(wr, [k \in 1..Len(oks) |-> oks[k].val])
                IN  /\ first.pc = "returning"
                    /\ Len(Calls(first.log)) = Len(oks)
                    /\ Payloads(first.log, "translation_done")
                           = Payloads(wr.log, "translation_done")

C8_Witness ==
    \E w \in W :
        /\ Has(workers[w].log, "translation_done")
        /\ Len(FailedCallsOn(workers[w].log, 2)) = 2
        /\ Len(FailedCallsOn(workers[w].log, 1)) = 1

\* C9: the values emitted on progress never decrease, and 100 is emitted
\* only when the last successful call before it is the one on the final chunk.
C9_ProgressMonotone ==
    \A w \in W :
        LET wr == workers[w]
            lg == wr.log
            pv == Payloads(lg, "progress")
        IN  /\ \A a, b \in 1..Len(pv) : a < b => pv[a] <= pv[b]
            /\ \A p \in 1..Len(lg) :
                  (lg[p][1] = "progress" /\ lg[p][2] = 100) =>
                      LET oks == OkCalls(SubSeq(lg, 1, p))
                      IN  /\ Len(oks) = wr.total_chunks
                          /\ oks[Len(oks)].chunk = wr.total_chunks

C9_Witness ==
    \E w \in W :
        /\ workers[w].total_chunks = 2
        /\ Payloads(workers[w].log, "progress") = <<50, 100>>

\* C10: when stop() is called while the worker processes chunk k of n, or
\* between chunks k and k+1, no translation attempt is made on a chunk after
\* k: only the chunk in flight is finished.
C10_NoChunkAfterStop ==
    \A w \in W :
        LET lg == workers[w].log
        IN  \A p \in 1..Len(lg) :
                lg[p][1] = "stop" =>
                    LET k == IF lg[p][2].pc = "attempt" THEN lg[p][2].i + 1
                             ELSE lg[p][2].i
                        later == Calls(SubSeq(lg, p + 1, Len(lg)))
                    IN  \A j \in 1..Len(later) : later[j].chunk <= k

C10_Witness ==
    \E w \in W :
        LET wr == workers[w]
        IN  /\ wr.pc = "finished"
            /\ wr.total_chunks >= 2
            /\ \E p \in 1..Len(wr.log) :
                  /\ wr.log[p][1] = "stop"
                  /\ wr.log[p][2].pc = "attempt"
                  /\ wr.log[p][2].i = 0
                  /\ Len(OkCalls(SubSeq(wr.log, p + 1, Len(wr.log)))) = 1

\* The calls of a history, as a set.
CallSet(lg) == {Calls(lg)[j] : j \in 1..Len(Calls(lg))}

\* The request of wr names DeepL and carries no API key.
NoKeyRun(wr) == wr.translation_backend = "deepl" /\ wr.deepl_api_key = ""

\* C11 (as claimed): with backend 'deepl' and an empty API key no call of the
\* translation provider is ever made, whatever the number of chunks and
\* across all attempts, and the run ends with translation_error.
C11_NoKeyNoCallThenError ==
    \A w \in W :
        LET wr == workers[w]
        IN  NoKeyRun(wr) =>
                /\ \A c \in CallSet(wr.log) : ~c.net
                /\ RunOver(wr) => Has(wr.log, "translation_error")

\* C11 (amended): with backend 'deepl' and an empty API key no call of the
\* translation provider is ever made, across all attempts; a run over at
\* least one chunk that is not cancelled before its first chunk ends with
\* translation_error, a run over the empty text ends with translation_done,
\* and a run cancelled before its first chunk ends with neither.
C11_NoKeyNoCallErrorOnceAttempted ==
    \A w \in W :
        LET wr == workers[w]
        IN  NoKeyRun(wr) =>
                /\ \A c \in CallSet(wr.log) : ~c.net
                /\ RunOver(wr) =>
                      /\ (wr.total_chunks > 0 /\ ~ReturnedCancelled(wr))
                             => Has(wr.log, "translation_error")
                      /\ (wr.total_chunks = 0 /\ ~ReturnedCancelled(wr))
                             => Has(wr.log, "translation_done")
                      /\ ReturnedCancelled(wr) => Terminals(wr.log) = <<>>
                      /\ ReturnedCancelled(wr) => Calls(wr.log) = <<>>

C11_Witness ==
    \E w \in W :
        LET wr == workers[w]
        IN  /\ NoKeyRun(wr)
            /\ wr.total_chunks = 2
            /\ wr.pc = "finished"
            /\ Len(Calls(wr.log)) = 3
            /\ Has(wr.log, "translation_error")

\* C12: the description carried by translation_error is exactly the
\* description of the error of the last failed attempt (for a missing DeepL
\* key, the missing-credential message verbatim), not an earlier one and not
\* altered.
C12_LastErrorVerbatim ==
    \A w \in W :
        LET wr == workers[w]
            errs == Payloads(wr.log, "translation_error")
            cs == Calls(wr.log)
        IN  \A j \in 1..Len(errs) :
                /\ cs # <<>>
                /\ ~cs[Len(cs)].ok
                /\ errs[j] = cs[Len(cs)].val
                /\ NoKeyRun(wr) => errs[j] = NoKeyError

\* C14: once a worker has emitted translation_done or translation_error it
\* emits neither progress nor status_update afterwards.
C14_NothingAfterTerminal ==
    \A w \in W :
        LET lg == workers[w].log
        IN  \A p \in 1..Len(lg) : \A q \in (p + 1)..Len(lg) :
                IsTerminal(lg[p]) => lg[q][1] \notin {"progress", "status_update"}

C14_Witness ==
    \E w \in W :
        LET lg == workers[w].log
        IN  /\ workers[w].pc = "finished"
            /\ Has(lg, "translation_error")
            /\ Has(lg, "progress")
            /\ \E p \in 1..Len(lg) :
                  /\ IsTerminal(lg[p])
                  /\ p < Len(lg)

\* p is s without its trailing whitespace, everything else kept.
RTrimOf(p, s) ==
    \E b \in 0..Len(s) :
        /\ \A j \in (Len(s) - b + 1)..Len(s) : IsSpace(s[j])
        /\ p = SubSeq(s, 1, Len(s) - b)
        /\ p # <<>> => ~IsSpace(p[Len(p)])

\* p is s without its leading and its trailing whitespace, the interior kept.
TrimOf(p, s) ==
    \E a \in 0..Len(s) : \E b \in 0..(Len(s) - a) :
        /\ \A j \in 1..a : IsSpace(s[j])
        /\ \A j \in (Len(s) - b + 1)..Len(s) : IsSpace(s[j])
        /\ p = SubSeq(s, a + 1, Len(s) - b)
        /\ p # <<>> => ~IsSpace(p[1]) /\ ~IsSpace(p[Len(p)])

C17_UnknownBackendOneAttempt ==
    \A w \in W :
        LET wr == workers[w]
        IN  wr.translation_backend \notin Backends =>
                /\ ~Has(wr.log, "sleep")
                /\ Len(Calls(wr.log)) <= 1
                /\ (RunOver(wr) /\ wr.total_chunks > 0
                    /\ ~ReturnedCancelled(wr)) =>
                       /\ Len(CallsOn(wr.log, 1)) = 1
                       /\ Has(wr.log, "translation_error")

\* The arguments worker w was constructed with.
InitArgs(wr) == Payloads(wr.log, "init")[1]

\* C13: after translate_text has replaced a worker, no progress, status,
\* done or error signal of the previous worker changes the translation area,
\* the progress bar, the status label or the Translate button.
C13_StaleSignalsIgnored ==
    [][(queue # <<>> /\ queue' = Tail(queue) /\ Head(queue).w # worker) =>
           UNCHANGED <<target_text, progress_bar, status_label,
                       translate_button>>]_vars

C13_Witness ==
    /\ Len(workers) = 2
    /\ worker = 2
    /\ Has(workers[1].log, "stop")
    /\ workers[1].pc = "returning"
    /\ workers[2].pc = "attempt"
    /\ status_label = <<"Processing chunk", 1, 2>>

\* C18: the request of a worker is immutable: the text, target language
\* code, backend and API key used for every chunk are those translate_text
\* read when it created the worker, whatever the settings, the target
\* language and the source text are changed to while the run goes on.
C18_RequestImmutable ==
    [][/\ Len(workers') > Len(workers) =>
              InitArgs(workers'[Len(workers')]) = RequestNow
       /\ \A w \in DOMAIN workers' :
              LET wr == workers'[w]
              IN  /\ CallArgs(wr) = InitArgs(wr)
                  /\ \A c \in CallSet(wr.log) : c.args = InitArgs(wr)]_vars

C18_Witness ==
    \E w \in W :
        LET wr == workers[w]
        IN  /\ w = worker
            /\ wr.total_chunks = 2
            /\ Len(CallsOn(wr.log, 1)) = 1
            /\ wr.i = 1
            /\ wr.pc = "attempt"
            /\ \A f \in DOMAIN RequestNow : RequestNow[f] # InitArgs(wr)[f]

\* C20: when translation_error is delivered, the translation area shows the
\* error text, the progress bar is hidden and the Translate button is
\* enabled.
C20_ErrorShown ==
    [][(queue # <<>> /\ queue' = Tail(queue)
        /\ Head(queue).sig = "translation_error") =>
           /\ target_text' = <<"Translation Error:", Head(queue).arg,
                               "Please try again.">>
           /\ ~progress_bar'.visible
           /\ translate_button'.enabled]_vars

C20_Witness ==
    /\ target_text[1] = "Translation Error:"
    /\ ~progress_bar.visible
    /\ translate_button.enabled
    /\ status_label = <<"Translation failed - Please try again">>

\* The number of stop() calls in the histories of all workers.
RECURSIVE StopCount(_)
StopCount(ws) ==
    IF ws = <<>> THEN 0
    ELSE Len(Payloads(Head(ws).log, "stop")) + StopCount(Tail(ws))

\* C19: translate_text with an empty source text is rejected: no worker is
\* created or started, no existing worker is stopped or replaced, the
\* Translate button and the progress bar are unchanged, and run is never
\* executed with zero chunks.
C19_EmptyTextRejected ==
    [][/\ (status_label' = <<"Please enter text to translate">>
           /\ status_label' # status_label) =>
              UNCHANGED <<workers, worker, queue, ui_pc, translate_button,
                          progress_bar, target_text>>
       /\ (ui_pc = "idle" /\ source_text.len = 0) =>
              /\ Len(workers') = Len(workers)
              /\ worker' = worker
              /\ StopCount(workers') = StopCount(workers)
              /\ ui_pc' = "idle"
       /\ \A w \in DOMAIN workers' :
              /\ workers'[w].text.len > 0
              /\ workers'[w].pc # "start" => workers'[w].total_chunks >= 1]_vars

C19_Witness ==
    /\ source_text.len = 0
    /\ status_label = <<"Please enter text to translate">>
    /\ Len(workers) = 1
    /\ worker = 1
    /\ workers[worker].pc = "returning"
    /\ workers[worker].is_running
    /\ translate_button.enabled
    /\ ~progress_bar.visible

\* The seconds slept in a history before the attempts on chunk k: a sleep is
\* followed at once by the attempt it delays.
RECURSIVE SleptOn(_, _)
SleptOn(lg, k) ==
    IF Len(lg) < 2 THEN 0
    ELSE LET front == SubSeq(lg, 1, Len(lg) - 1)
             last == lg[Len(lg)]
             prev == lg[Len(lg) - 1]
         IN  IF last[1] = "call" /\ last[2].chunk = k /\ prev[1] = "sleep"
             THEN prev[2] + SleptOn(front, k)
             ELSE SleptOn(front, k)

\* C21: the backoff schedule of each chunk: no wait before the first attempt,
\* 2 seconds before the second, 4 seconds before the third, no wait after
\* the third failure, the delay starting again at 2 seconds for every chunk
\* whatever the retries on earlier chunks; at most 6 seconds per chunk.
C21_BackoffSchedule ==
    \A w \in W :
        LET lg == workers[w].log
        IN  /\ \A p \in 1..Len(lg) :
                  /\ lg[p][1] = "call" =>
                        IF lg[p][2].attempt = 0 THEN lg[p - 1][1] # "sleep"
                        ELSE /\ lg[p - 1][1] = "sleep"
                             /\ lg[p - 1][2] =
                                    IF lg[p][2].attempt = 1 THEN 2 ELSE 4
                  /\ lg[p][1] = "sleep" =>
                        /\ p < Len(lg)
                        /\ lg[p + 1][1] = "call"
                        /\ lg[p + 1][2].attempt \in {1, 2}
            /\ \A k \in 1..MaxChunks : SleptOn(lg, k) <= 6

C21_Witness ==
    \E w \in W :
        LET wr == workers[w]
        IN  /\ wr.pc = "finished"
            /\ Payloads(wr.log, "sleep") = <<2, 4, 2, 4>>
            /\ Len(CallsOn(wr.log, 1)) = 3
            /\ Len(CallsOn(wr.log, 2)) = 3
            /\ SleptOn(wr.log, 1) = 6
            /\ Has(wr.log, "translation_error")

\* A history without its stop() calls, which another thread makes.
OwnEvents(lg) == SelectSeq(lg, LAMBDA ev : ev[1] # "stop")

\* C22: cancellation is observed only at a chunk boundary: the flag is read
\* once at the start of each chunk and never between the attempts of one
\* chunk, so a stop() issued during chunk k does not prevent the remaining
\* retries and backoff waits of chunk k.
C22_CancelOnlyAtBoundary ==
    \A w \in W :
        LET wr == workers[w]
            lg == wr.log
            own == OwnEvents(lg)
        IN  /\ \A p \in 1..Len(own) :
                  own[p][1] = "return" =>
                      \/ own[p - 1][1] = "progress"
                      \/ /\ own[p - 1][1] = "status_update"
                         /\ own[p - 1][2][1] = "Translating"
            /\ \A p \in 1..Len(lg) :
                  (lg[p][1] = "stop" /\ lg[p][2].pc = "attempt") =>
                      LET k == lg[p][2].i + 1
                          inChunk == wr.pc = "attempt" /\ wr.i = k - 1
                      IN  ~inChunk =>
                              \/ \E c \in CallSet(lg) : c.chunk = k /\ c.ok
                              \/ /\ Len(FailedCallsOn(lg, k)) = max_retries
                                 /\ SleptOn(lg, k) = 6

C22_Witness ==
    \E w \in W :
        LET wr == workers[w]
        IN  /\ wr.pc = "finished"
            /\ wr.total_chunks = 2
            /\ \E p \in 1..Len(wr.log) :
                  /\ wr.log[p][1] = "stop"
                  /\ wr.log[p][2].pc = "attempt"
                  /\ wr.log[p][2].i = 0
                  /\ Calls(SubSeq(wr.log, 1, p)) = <<>>
            /\ Len(FailedCallsOn(wr.log, 1)) = 2
            /\ Len(OkCalls(wr.log)) = 1
            /\ Payloads(wr.log, "sleep") = <<2, 4>>
            /\ ReturnedCancelled(wr)

\* C23: exactly one progress value is emitted for each successfully
\* translated chunk, after that chunk's translation and before the first
\* attempt on the next chunk, and for the k-th of n chunks its value is the
\* integer percentage floor(100 * k / n); the status naming chunk k and the
\* total n is emitted before the first attempt on chunk k.
C23_ProgressPerChunk ==
    \A w \in W :
        LET wr == workers[w]
            own == OwnEvents(wr.log)
            n == wr.total_chunks
        IN  /\ Len(Payloads(own, "progress")) = Len(OkCalls(own))
            /\ \A p \in 1..Len(own) :
                  /\ (own[p][1] = "call" /\ own[p][2].ok) =>
                        /\ p < Len(own)
                        /\ own[p + 1] =
                               <<"progress", (100 * own[p][2].chunk) \div n>>
                  /\ own[p][1] = "progress" =>
                        own[p - 1][1] = "call" /\ own[p - 1][2].ok
                  /\ (own[p][1] = "call" /\ own[p][2].attempt = 0) =>
                        own[p - 1] =
                            <<"status_update",
                              <<"Processing chunk", own[p][2].chunk, n>> >>

\* The terminal signal of worker w has been emitted and handled by its slot.
TerminalHandled(w) ==
    /\ Terminals(workers[w].log) # <<>>
    /\ \A j \in 1..Len(queue) :
          ~(queue[j].w = w
            /\ queue[j].sig \in {"translation_done", "translation_error"})

\* C24: from the moment translate_text starts a worker until the UI handles
\* that worker's translation_done or translation_error the Translate button
\* is disabled; in every reachable state where the button is enabled no
\* worker is between its first chunk and its terminal signal.
C24_ButtonDisabledWhileRunning ==
    /\ \A w \in W : ~TerminalHandled(w) => ~translate_button.enabled
    /\ translate_button.enabled =>
           \A w \in W : workers[w].pc \in {"returning", "finished"}

C24_Witness ==
    /\ translate_button.enabled
    /\ Len(workers) = 2
    /\ worker = 2
    /\ workers[1].pc = "returning"
    /\ workers[2].pc = "returning"
    /\ Has(workers[2].log, "translation_done")
    /\ target_text = <<"a", " ", "b", " ", " ", " ", "a", " ", "b">>

\* C25: after translate_text has disabled the Translate button and started a
\* worker, the button is eventually enabled again, provided every backend
\* call returns or raises and the UI handles the delivered signals: nothing
\* leaves the button disabled forever.
C25_ButtonEnabledAgain == (~translate_button.enabled) ~> translate_button.enabled

C25_Witness ==
    /\ translate_button.enabled
    /\ worker # 0
    /\ workers[worker].pc = "finished"
    /\ status_label = <<"Translation complete!">>
    /\ queue = <<>>

\* C26: every run terminates, provided every backend call returns or raises:
\* a run over n chunks ends with translation_done, with translation_error or
\* with a silent cancellation, it makes at most 3 * n translation attempts,
\* and it never attempts a chunk again once an attempt on it has succeeded.
C26_RunTerminates ==
    /\ <>RunOver(workers[1])
    /\ [](\A w \in W :
            LET wr == workers[w]
                calls == Calls(wr.log)
                n == Ceil(wr.text.len, CHUNK_SIZE)
            IN  /\ Len(calls) <= 3 * n
                /\ \A p, q \in 1..Len(calls) :
                       p < q /\ calls[p].ok => calls[q].chunk # calls[p].chunk
                /\ RunOver(wr) =>
                       \/ Has(wr.log, "translation_done")
                       \/ Has(wr.log, "translation_error")
                       \/ ReturnedCancelled(wr))

\* A run of two chunks that ended after three attempts: two failures and a
\* success on the first chunk, the stop() seen before the second.
C26_Witness ==
    /\ Len(workers) = 1
    /\ workers[1].pc = "finished"
    /\ workers[1].total_chunks = 2
    /\ ReturnedCancelled(workers[1])
    /\ [j \in 1..Len(Calls(workers[1].log)) |->
           <<Calls(workers[1].log)[j].chunk, Calls(workers[1].log)[j].ok>>]
          = <<<<1, FALSE>>, <<1, FALSE>>, <<1, TRUE>>>>

====
